---------------------------- MODULE Spec2Model ----------------------------
(***************************************************************************)
(* A model of cower, an interpreter for the COW language (src/main.rs).    *)
(*                                                                         *)
(* main reads a source text, lexes it into Commands, parses the Commands   *)
(* into a tree of Instructions and executes the tree on a tape of MEM_SIZE *)
(* bytes with a pointer and a one-byte register.  The model follows main   *)
(* step by step: Lex, Parse, then one step per executed instruction.       *)
(***************************************************************************)
EXTENDS Integers, Sequences, FiniteSets, TLC

(***************************************************************************)
(* Program constants.                                                      *)
(***************************************************************************)
\* const MEM_SIZE: usize = 3000
MEM_SIZE == 3000

\* The number of values of a u8 (the tape's cells, the register, a byte read).
Byte == 256

(***************************************************************************)
(* Bounds of the model.                                                    *)
(***************************************************************************)
\* Longest source, in tokens, over the loop alphabet (nesting of loops).
MaxLen == 5

\* Longest source, in tokens, over the whole alphabet of twelve commands.
MaxShort == 3

\* The executor's output is followed up to this many bytes.
MaxOut == 12

(***************************************************************************)
(* enum Command                                                            *)
(***************************************************************************)
Command ==
    {"LoopEnd", "DecPtr", "IncPtr", "ExecVal", "RWCond", "DecVal", "IncVal",
     "LoopStart", "ZeroVal", "RegAccess", "Write", "Read"}

(***************************************************************************)
(* enum Instruction: a leaf carries its tag and an empty body, a Loop its  *)
(* sub-instructions.                                                       *)
(***************************************************************************)
\* A bug: the leaf of an IncVal command is a DecVal.
LeafSwapped(tag) ==
    [op |-> IF tag = "IncVal" THEN "DecVal" ELSE tag, body |-> <<>>]

Leaf(tag) == [op |-> tag, body |-> <<>>]

Loop(loop_instructions) == [op |-> "Loop", body |-> loop_instructions]

(***************************************************************************)
(* lex.  A source text is a sequence of characters (one-character          *)
(* strings); a token is the sequence of characters between whitespace.     *)
(***************************************************************************)
\* A bug: line ends are no whitespace.
WhiteSpaceNoNewline == {" ", "\t"}

WhiteSpace == {" ", "\t", "\n", "\r"}

\* contents.split_whitespace(): the maximal runs of non-whitespace, in order.
\* SplitFrom gives the runs that start at index i or later: the next one
\* goes from the first non-whitespace character s to the last character e
\* before whitespace or the end of the text.
RECURSIVE SplitFrom(_, _)
SplitFrom(contents, i) ==
    IF \A j \in i..Len(contents) : contents[j] \in WhiteSpace
    THEN <<>>
    ELSE LET s == CHOOSE j \in i..Len(contents) :
                    /\ contents[j] \notin WhiteSpace
                    /\ \A k \in i..(j - 1) : contents[k] \in WhiteSpace
             e == CHOOSE j \in s..Len(contents) :
                    /\ \A k \in s..j : contents[k] \notin WhiteSpace
                    /\ j = Len(contents) \/ contents[j + 1] \in WhiteSpace
         IN  <<SubSeq(contents, s, e)>> \o SplitFrom(contents, e + 1)

split_whitespace(contents) == SplitFrom(contents, 1)

\* The match of lex: Some(Command) as a one-element sequence, None as <<>>.
MatchToken(element) ==
    CASE element = <<"m", "o", "o">> -> <<"LoopEnd">>
      [] element = <<"m", "O", "o">> -> <<"DecPtr">>
      [] element = <<"m", "o", "O">> -> <<"IncPtr">>
      [] element = <<"m", "O", "O">> -> <<"ExecVal">>
      [] element = <<"M", "o", "o">> -> <<"RWCond">>
      [] element = <<"M", "O", "o">> -> <<"DecVal">>
      [] element = <<"M", "o", "O">> -> <<"IncVal">>
      [] element = <<"M", "O", "O">> -> <<"LoopStart">>
      [] element = <<"O", "O", "O">> -> <<"ZeroVal">>
      [] element = <<"M", "M", "M">> -> <<"RegAccess">>
      [] element = <<"O", "O", "M">> -> <<"Write">>
      [] element = <<"o", "o", "m">> -> <<"Read">>
      [] OTHER -> <<>>

RECURSIVE LexFrom(_, _)
LexFrom(contents_split, k) ==
    IF k > Len(contents_split)
    THEN <<>>
    ELSE MatchToken(contents_split[k]) \o LexFrom(contents_split, k + 1)

lex(contents) == LexFrom(split_whitespace(contents), 1)

(***************************************************************************)
(* parse.  The result is the instructions, or the panic of line 101.       *)
(***************************************************************************)
ParsePanic == [panic |-> TRUE, instructions |-> <<>>]

ParseOk(instructions) == [panic |-> FALSE, instructions |-> instructions]

\* The for loop of parse from index i (1-based) with the locals loop_level,
\* loop_start, skip_next and instructions.  skip_next is set by every
\* LoopStart, so the scan of this level passes over the command after it.
RECURSIVE ParseFrom(_, _, _, _, _, _)
ParseFrom(commands, i, loop_level, loop_start, skip_next, instructions) ==
    IF i > Len(commands)
    THEN ParseOk(instructions)
    ELSE IF skip_next
    THEN ParseFrom(commands, i + 1, loop_level, loop_start, FALSE, instructions)
    ELSE IF loop_level = 0
    THEN CASE commands[i] = "LoopEnd" -> ParsePanic
           [] commands[i] = "LoopStart" ->
                ParseFrom(commands, i + 1, loop_level + 1, i, TRUE,
                          instructions)
           [] OTHER ->
                ParseFrom(commands, i + 1, loop_level, loop_start, FALSE,
                          Append(instructions, Leaf(commands[i])))
    ELSE CASE commands[i] = "LoopStart" ->
                ParseFrom(commands, i + 1, loop_level + 1, loop_start,
                          TRUE, instructions)
           [] commands[i] = "LoopEnd" ->
                IF loop_level - 1 = 0
                THEN LET sub == ParseFrom(SubSeq(commands, loop_start + 1, i - 1),
                                          1, 0, 0, FALSE, <<>>)
                     IN  IF sub.panic
                         THEN ParsePanic
                         ELSE ParseFrom(commands, i + 1, 0, loop_start, FALSE,
                                        Append(instructions, Loop(sub.instructions)))
                ELSE ParseFrom(commands, i + 1, loop_level - 1, loop_start,
                               FALSE, instructions)
           [] OTHER ->
                ParseFrom(commands, i + 1, loop_level, loop_start, FALSE,
                          instructions)

parse(commands) == ParseFrom(commands, 1, 0, 0, FALSE, <<>>)

(***************************************************************************)
(* The executor's data.                                                    *)
(*                                                                         *)
(* mem is vec![0; MEM_SIZE]: the model keeps the cells that hold a nonzero *)
(* value, every other cell of 0..MEM_SIZE-1 reads as 0.                    *)
(*                                                                         *)
(* ptr is a usize.  Its values are written as their signed representatives *)
(* modulo the width of usize: -1 stands for usize::MAX, the value that     *)
(* 0 - 1 wraps to.  A build with overflow checks panics there instead.     *)
(***************************************************************************)
ZeroMem == [p \in {} |-> 0]

\* A bug: an index below 0 (a wrapped usize) passes for one of the tape.
InBoundsNoLowerEnd(p) == p < MEM_SIZE

InBounds(p) == 0 <= p /\ p < MEM_SIZE

\* mem[p] for an index in bounds.
CellAt(m, p) == IF p \in DOMAIN m THEN m[p] ELSE 0

\* A bug: the store goes to the cell after p.
StoreOffByOne(m, p, v) ==
    [q \in (DOMAIN m \ {p + 1}) \cup (IF v = 0 THEN {} ELSE {p + 1}) |->
        IF q = p + 1 THEN v ELSE m[q]]

\* mem[p] = v for an index in bounds.
Store(m, p, v) ==
    [q \in (DOMAIN m \ {p}) \cup (IF v = 0 THEN {} ELSE {p}) |->
        IF q = p THEN v ELSE m[q]]

\* A bug: the addition saturates at 255 where it should wrap.
saturating_add(a, b) == IF a + b >= Byte THEN Byte - 1 ELSE a + b

\* u8::wrapping_add and u8::wrapping_sub.
wrapping_add(a, b) == (a + b) % Byte

wrapping_sub(a, b) == (a - b + Byte) % Byte

\* print!("{}", v) of a u8: the bytes of its decimal digits.
Decimal(v) ==
    IF v < 10 THEN <<48 + v>>
    ELSE IF v < 100 THEN <<48 + (v \div 10), 48 + (v % 10)>>
    ELSE <<48 + (v \div 100), 48 + ((v \div 10) % 10), 48 + (v % 10)>>

\* The effect of RegAccess on the cell and the register.
RegAccessCell(cell, r) == IF r.empty THEN cell ELSE r.value

\* A bug: the cell is not copied into an empty register.
RegAccessRegNoCopy(cell, r) == [value |-> r.value, empty |-> ~r.empty]

RegAccessReg(cell, r) ==
    [value |-> IF r.empty THEN cell ELSE r.value, empty |-> ~r.empty]

\* A bug: the guard is inverted.
LoopGuardInverted(cell) == cell = 0

\* The guard of the while loop of Instruction::Loop.
LoopGuard(cell) == cell # 0

(***************************************************************************)
(* The runs the model follows: a source text, the bytes waiting on stdin   *)
(* and whether the build checks arithmetic overflow (a debug build does, a *)
(* release build wraps).                                                   *)
(***************************************************************************)
SeqsUpTo(S, n) == UNION {[1..k -> S] : k \in 0..n}

Rep(c, n) == [k \in 1..n |-> c]

\* The token of a command: the inverse of the match of lex.
TokenOf(c) ==
    CASE c = "LoopEnd" -> <<"m", "o", "o">>
      [] c = "DecPtr" -> <<"m", "O", "o">>
      [] c = "IncPtr" -> <<"m", "o", "O">>
      [] c = "ExecVal" -> <<"m", "O", "O">>
      [] c = "RWCond" -> <<"M", "o", "o">>
      [] c = "DecVal" -> <<"M", "O", "o">>
      [] c = "IncVal" -> <<"M", "o", "O">>
      [] c = "LoopStart" -> <<"M", "O", "O">>
      [] c = "ZeroVal" -> <<"O", "O", "O">>
      [] c = "RegAccess" -> <<"M", "M", "M">>
      [] c = "Write" -> <<"O", "O", "M">>
      [] c = "Read" -> <<"o", "o", "m">>

\* The source text of a program: its tokens, a space between two of them.
RECURSIVE Render(_)
Render(prog) ==
    IF prog = <<>> THEN <<>>
    ELSE IF Len(prog) = 1 THEN TokenOf(prog[1])
    ELSE TokenOf(prog[1]) \o <<" ">> \o Render(Tail(prog))

\* Sources over LoopStart, LoopEnd and two other commands: every nesting.
LoopAlphabet == {"LoopStart", "LoopEnd", "IncVal", "DecVal"}

LoopPrograms == SeqsUpTo(LoopAlphabet, MaxLen)

\* Sources over the twelve commands.
ShortPrograms == SeqsUpTo(Command, MaxShort)

\* A loop whose body zeroes the guard cell, restores it and moves the pointer.
GuardProgram ==
    <<"IncVal", "LoopStart", "ZeroVal", "IncVal", "IncPtr", "LoopEnd", "Write">>

\* Longer runs: a walk over the whole tape, a cell taken around its 256
\* values from a byte read, a register filled before two toggles, the loop
\* of GuardProgram.
LongPrograms ==
    { <<"IncVal", "LoopStart", "ZeroVal", "IncPtr", "IncVal", "LoopEnd">>,
      GuardProgram,
      <<"Read", "LoopStart", "IncVal", "IncVal", "LoopEnd">>,
      <<"Read", "LoopStart", "DecVal", "DecVal", "LoopEnd">>,
      <<"RegAccess", "IncVal", "RegAccess", "RegAccess">>,
      <<"Read", "RegAccess", "ZeroVal", "RegAccess", "RegAccess", "Write">> }

\* Sources with text that is no command, and with other whitespace.
NoiseSources ==
    { <<>>,
      <<" ", "\n", "\t">>,
      <<"m", "o", "o", "m">>,
      <<"M", "o", "O", "\n", "c", "o", "w", "\t", " ", "O", "O", "M", "\r", "\n">>,
      <<"m", "O", "O", "O", " ", "M", "o", "O", "O", "O", "M">> }

Inputs == { <<>>, <<65>>, <<255, 0>> }

\* <<source text, stdin, overflow checks>>.  The programs over the loop
\* alphabet neither read nor move the pointer: one stdin and one build do
\* for them.  The short programs run on every stdin and both builds.
Scenarios ==
    ({Render(prog) : prog \in LoopPrograms} \X {<<>>} \X {TRUE})
    \cup ({Render(prog) : prog \in ShortPrograms} \X Inputs \X BOOLEAN)
    \cup ({Render(prog) : prog \in LongPrograms} \X {<<65>>} \X {FALSE})
    \cup (NoiseSources \X {<<>>} \X {TRUE})

(***************************************************************************)
(* The state of a run.                                                     *)
(***************************************************************************)
VARIABLES
    contents,         \* main: file_contents, the source text
    input,            \* the bytes of stdin
    overflow_checks,  \* whether the build panics on arithmetic overflow
    pc,               \* "lex", "parse", "exec", "done" (main returned), "panic"
    panic_msg,        \* the message of the panic that ended the run
    lexed,            \* main: lexed
    instructions,     \* main: instructions
    mem,              \* main: mem
    ptr,              \* main: ptr
    reg,              \* main: reg
    out,              \* the bytes written to stdout
    inpos,            \* the number of bytes read from stdin
    stack,            \* the calls of exec in progress: [code, i], i the
                      \* place of the for loop in code
    hist,             \* the last two completed steps of the executor, each
                      \* with the state it started from
    streak            \* the run of IncVal or of DecVal steps just completed

vars == <<contents, input, overflow_checks, pc, panic_msg, lexed, instructions,
          mem, ptr, reg, out, inpos, stack, hist, streak>>

NoStreak == [op |-> "", n |-> 0, cell |-> 0]

Init ==
    /\ \E sc \in Scenarios :
          /\ contents = sc[1]
          /\ input = sc[2]
          /\ overflow_checks = sc[3]
    /\ pc = "lex"
    /\ panic_msg = ""
    /\ lexed = <<>>
    /\ instructions = <<>>
    /\ mem = ZeroMem
    /\ ptr = 0
    /\ reg = [value |-> 0, empty |-> TRUE]
    /\ out = <<>>
    /\ inpos = 0
    /\ stack = <<>>
    /\ hist = <<>>
    /\ streak = NoStreak

(***************************************************************************)
(* main, up to the call of exec.                                           *)
(***************************************************************************)
\* let lexed = lex(file_contents)
Lex ==
    /\ pc = "lex"
    /\ lexed' = lex(contents)
    /\ pc' = "parse"
    /\ UNCHANGED <<contents, input, overflow_checks, panic_msg, instructions,
                   mem, ptr, reg, out, inpos, stack, hist, streak>>

\* let instructions = parse(lexed), then the allocation of mem, ptr and reg
\* and the call exec(&instructions, ...).
Parse ==
    /\ pc = "parse"
    /\ LET res == parse(lexed)
       IN  IF res.panic
           THEN /\ pc' = "panic"
                /\ panic_msg' = "Loop end with no loop start"
                /\ UNCHANGED <<instructions, stack>>
           ELSE /\ pc' = "exec"
                /\ instructions' = res.instructions
                /\ stack' = <<[code |-> res.instructions, i |-> 1]>>
                /\ UNCHANGED panic_msg
    /\ UNCHANGED <<contents, input, overflow_checks, lexed, mem, ptr, reg, out,
                   inpos, hist, streak>>

(***************************************************************************)
(* exec.  The last element of stack is the call in progress; its i is the  *)
(* instruction the for loop is at.                                         *)
(***************************************************************************)
Top == stack[Len(stack)]

AtInstr(tag) ==
    /\ pc = "exec"
    /\ stack # <<>>
    /\ Top.i <= Len(Top.code)
    /\ Top.code[Top.i].op = tag

\* The state a step starts from, as hist keeps it (cell is -1 when mem[ptr]
\* is no cell of the tape).
Snap(tag) ==
    [op |-> tag, ptr |-> ptr,
     cell |-> IF InBounds(ptr) THEN CellAt(mem, ptr) ELSE -1,
     reg |-> reg, out |-> out, inpos |-> inpos]

Last(h) == h[Len(h)]

Push(h, e) == IF Len(h) < 2 THEN Append(h, e) ELSE <<h[2], e>>

\* streak after a completed step: a run of IncVal (or of DecVal) steps with
\* nothing between them but the tests of a Loop, the cell it started from
\* and its length, counted anew after Byte steps.
Streak(st, tag, cell) ==
    IF tag \in {"IncVal", "DecVal"}
    THEN IF st.op = tag /\ st.n < Byte
         THEN [st EXCEPT !.n = @ + 1]
         ELSE [op |-> tag, n |-> 1, cell |-> cell]
    ELSE IF tag = "Loop" THEN st ELSE NoStreak

Static == UNCHANGED <<contents, input, overflow_checks, lexed, instructions>>

\* The instruction panics: the process ends.
Abort(msg) ==
    /\ pc' = "panic"
    /\ panic_msg' = msg
    /\ UNCHANGED <<stack, hist, streak>>

\* A bug: the instruction is done and the for loop stays at it.
CompleteNoAdvance(tag) ==
    /\ stack' = stack
    /\ hist' = Push(hist, Snap(tag))
    /\ streak' = Streak(streak, tag, CellAt(mem, ptr))
    /\ UNCHANGED <<pc, panic_msg>>

\* The instruction is done: the for loop moves on.
Complete(tag) ==
    /\ stack' = [stack EXCEPT ![Len(stack)].i = @ + 1]
    /\ hist' = Push(hist, Snap(tag))
    /\ streak' = Streak(streak, tag, CellAt(mem, ptr))
    /\ UNCHANGED <<pc, panic_msg>>

\* Instruction::DecPtr => *ptr -= 1
ExecDecPtr ==
    /\ AtInstr("DecPtr")
    /\ Static
    /\ UNCHANGED <<mem, reg, out, inpos>>
    /\ IF ptr = 0 /\ overflow_checks
       THEN Abort("attempt to subtract with overflow") /\ UNCHANGED ptr
       ELSE ptr' = ptr - 1 /\ Complete("DecPtr")

\* Instruction::IncPtr => *ptr += 1
ExecIncPtr ==
    /\ AtInstr("IncPtr")
    /\ Static
    /\ UNCHANGED <<mem, reg, out, inpos>>
    /\ IF ptr = -1 /\ overflow_checks
       THEN Abort("attempt to add with overflow") /\ UNCHANGED ptr
       ELSE ptr' = ptr + 1 /\ Complete("IncPtr")

\* A bug: ExecVal does nothing and the run goes on.
ExecExecValNoOp ==
    /\ AtInstr("ExecVal")
    /\ Static
    /\ UNCHANGED <<mem, ptr, reg, out, inpos>>
    /\ Complete("ExecVal")

\* Instruction::ExecVal => todo!()
ExecExecVal ==
    /\ AtInstr("ExecVal")
    /\ Static
    /\ UNCHANGED <<mem, ptr, reg, out, inpos>>
    /\ Abort("not yet implemented")

\* A bug: the test of RWCond is inverted, a zero cell is written and a
\* nonzero cell is read into.
ExecRWCondInverted ==
    /\ AtInstr("RWCond")
    /\ InBounds(ptr) /\ CellAt(mem, ptr) = 0 => Len(out) < MaxOut
    /\ Static
    /\ UNCHANGED <<ptr, reg>>
    /\ IF ~InBounds(ptr)
       THEN Abort("index out of bounds") /\ UNCHANGED <<mem, out, inpos>>
       ELSE IF CellAt(mem, ptr) # 0
       THEN IF inpos < Len(input)
            THEN /\ inpos' = inpos + 1
                 /\ mem' = Store(mem, ptr, input[inpos + 1])
                 /\ UNCHANGED out
                 /\ Complete("RWCond")
            ELSE Abort("stdin read failed") /\ UNCHANGED <<mem, out, inpos>>
       ELSE /\ out' = out \o Decimal(CellAt(mem, ptr))
            /\ UNCHANGED <<mem, inpos>>
            /\ Complete("RWCond")

\* Instruction::RWCond
ExecRWCond ==
    /\ AtInstr("RWCond")
    /\ InBounds(ptr) /\ CellAt(mem, ptr) # 0 => Len(out) < MaxOut
    /\ Static
    /\ UNCHANGED <<ptr, reg>>
    /\ IF ~InBounds(ptr)
       THEN Abort("index out of bounds") /\ UNCHANGED <<mem, out, inpos>>
       ELSE IF CellAt(mem, ptr) = 0
       THEN IF inpos < Len(input)
            THEN /\ inpos' = inpos + 1
                 /\ mem' = Store(mem, ptr, input[inpos + 1])
                 /\ UNCHANGED out
                 /\ Complete("RWCond")
            ELSE Abort("stdin read failed") /\ UNCHANGED <<mem, out, inpos>>
       ELSE /\ out' = out \o Decimal(CellAt(mem, ptr))
            /\ UNCHANGED <<mem, inpos>>
            /\ Complete("RWCond")

\* Instruction::DecVal => mem[*ptr] = mem[*ptr].wrapping_sub(1u8)
ExecDecVal ==
    /\ AtInstr("DecVal")
    /\ Static
    /\ UNCHANGED <<ptr, reg, out, inpos>>
    /\ IF ~InBounds(ptr)
       THEN Abort("index out of bounds") /\ UNCHANGED mem
       ELSE /\ mem' = Store(mem, ptr, wrapping_sub(CellAt(mem, ptr), 1))
            /\ Complete("DecVal")

\* Instruction::IncVal => mem[*ptr] = mem[*ptr].wrapping_add(1u8)
ExecIncVal ==
    /\ AtInstr("IncVal")
    /\ Static
    /\ UNCHANGED <<ptr, reg, out, inpos>>
    /\ IF ~InBounds(ptr)
       THEN Abort("index out of bounds") /\ UNCHANGED mem
       ELSE /\ mem' = Store(mem, ptr, wrapping_add(CellAt(mem, ptr), 1))
            /\ Complete("IncVal")

\* Instruction::ZeroVal => mem[*ptr] = 0
ExecZeroVal ==
    /\ AtInstr("ZeroVal")
    /\ Static
    /\ UNCHANGED <<ptr, reg, out, inpos>>
    /\ IF ~InBounds(ptr)
       THEN Abort("index out of bounds") /\ UNCHANGED mem
       ELSE /\ mem' = Store(mem, ptr, 0)
            /\ Complete("ZeroVal")

\* Instruction::RegAccess
ExecRegAccess ==
    /\ AtInstr("RegAccess")
    /\ Static
    /\ UNCHANGED <<ptr, out, inpos>>
    /\ IF ~InBounds(ptr)
       THEN Abort("index out of bounds") /\ UNCHANGED <<mem, reg>>
       ELSE /\ mem' = Store(mem, ptr, RegAccessCell(CellAt(mem, ptr), reg))
            /\ reg' = RegAccessReg(CellAt(mem, ptr), reg)
            /\ Complete("RegAccess")

\* Instruction::Write => print!("{}", mem[*ptr])
ExecWrite ==
    /\ AtInstr("Write")
    /\ Len(out) < MaxOut
    /\ Static
    /\ UNCHANGED <<mem, ptr, reg, inpos>>
    /\ IF ~InBounds(ptr)
       THEN Abort("index out of bounds") /\ UNCHANGED out
       ELSE /\ out' = out \o Decimal(CellAt(mem, ptr))
            /\ Complete("Write")

\* A bug: a Read at the end of the input stores 0 and the run goes on.
ExecReadEofZero ==
    /\ AtInstr("Read")
    /\ Static
    /\ UNCHANGED <<ptr, reg, out>>
    /\ IF inpos >= Len(input)
       THEN IF ~InBounds(ptr)
            THEN Abort("index out of bounds") /\ UNCHANGED <<mem, inpos>>
            ELSE /\ mem' = Store(mem, ptr, 0)
                 /\ UNCHANGED inpos
                 /\ Complete("Read")
       ELSE /\ inpos' = inpos + 1
            /\ IF ~InBounds(ptr)
               THEN Abort("index out of bounds") /\ UNCHANGED mem
               ELSE /\ mem' = Store(mem, ptr, input[inpos + 1])
                    /\ Complete("Read")

\* Instruction::Read: read_exact of one byte, then mem[*ptr] = buf[0]
ExecRead ==
    /\ AtInstr("Read")
    /\ Static
    /\ UNCHANGED <<ptr, reg, out>>
    /\ IF inpos >= Len(input)
       THEN Abort("stdin read failed") /\ UNCHANGED <<mem, inpos>>
       ELSE /\ inpos' = inpos + 1
            /\ IF ~InBounds(ptr)
               THEN Abort("index out of bounds") /\ UNCHANGED mem
               ELSE /\ mem' = Store(mem, ptr, input[inpos + 1])
                    /\ Complete("Read")

\* Instruction::Loop: one test of while mem[*ptr] != 0, and on a nonzero
\* cell the call exec(loop_instructions, ...); the for loop stays at the
\* Loop until a test finds the cell 0.
ExecLoop ==
    /\ AtInstr("Loop")
    /\ Static
    /\ UNCHANGED <<mem, ptr, reg, out, inpos>>
    /\ IF ~InBounds(ptr)
       THEN Abort("index out of bounds")
       ELSE IF LoopGuard(CellAt(mem, ptr))
       THEN /\ stack' = Append(stack, [code |-> Top.code[Top.i].body, i |-> 1])
            /\ hist' = Push(hist, Snap("Loop"))
            /\ UNCHANGED <<pc, panic_msg, streak>>
       ELSE Complete("Loop")

\* A bug: the loop is an if, a call that returns goes on after the Loop with
\* no new test of the cell.
ExecReturnNoRetest ==
    /\ pc = "exec"
    /\ stack # <<>>
    /\ Top.i > Len(Top.code)
    /\ stack' = IF Len(stack) = 1 THEN <<>>
                ELSE [SubSeq(stack, 1, Len(stack) - 1)
                         EXCEPT ![Len(stack) - 1].i = @ + 1]
    /\ pc' = IF Len(stack) = 1 THEN "done" ELSE "exec"
    /\ Static
    /\ UNCHANGED <<panic_msg, mem, ptr, reg, out, inpos, hist, streak>>

\* The for loop of a call of exec is over: the call returns, to the while
\* loop of the Loop that made it or, for the call of main, to main, which
\* returns.
ExecReturn ==
    /\ pc = "exec"
    /\ stack # <<>>
    /\ Top.i > Len(Top.code)
    /\ stack' = SubSeq(stack, 1, Len(stack) - 1)
    /\ pc' = IF Len(stack) = 1 THEN "done" ELSE "exec"
    /\ Static
    /\ UNCHANGED <<panic_msg, mem, ptr, reg, out, inpos, hist, streak>>

Next ==
    \/ Lex
    \/ Parse
    \/ ExecDecPtr
    \/ ExecIncPtr
    \/ ExecExecVal
    \/ ExecRWCond
    \/ ExecDecVal
    \/ ExecIncVal
    \/ ExecZeroVal
    \/ ExecRegAccess
    \/ ExecWrite
    \/ ExecRead
    \/ ExecLoop
    \/ ExecReturn

Spec == Init /\ [][Next]_vars

\* A step of exec or of a call it makes.
ExecStep ==
    \/ ExecDecPtr
    \/ ExecIncPtr
    \/ ExecExecVal
    \/ ExecRWCond
    \/ ExecDecVal
    \/ ExecIncVal
    \/ ExecZeroVal
    \/ ExecRegAccess
    \/ ExecWrite
    \/ ExecRead
    \/ ExecLoop
    \/ ExecReturn

\* exec, once called, runs on: the process is one thread that is never
\* suspended for good, and its reads never block (a read gets a byte or the
\* end of the input).  While a step of exec is possible, one is taken.
FairSpec == Spec /\ WF_vars(ExecStep)

(***************************************************************************)
(* Notions the properties are stated with.                                 *)
(***************************************************************************)
\* The nesting depth after the first k commands: LoopStarts less LoopEnds.
DepthAfter(commands, k) ==
    Cardinality({j \in 1..k : commands[j] = "LoopStart"})
    - Cardinality({j \in 1..k : commands[j] = "LoopEnd"})

NoUnmatchedEnd(commands) ==
    \A k \in 1..Len(commands) : DepthAfter(commands, k) >= 0

WellNested(commands) ==
    NoUnmatchedEnd(commands) /\ DepthAfter(commands, Len(commands)) = 0

\* The LoopStart at k opens at depth 0 and the depth never returns to 0.
UnclosedAt(commands, k) ==
    /\ commands[k] = "LoopStart"
    /\ DepthAfter(commands, k - 1) = 0
    /\ \A j \in k..Len(commands) : DepthAfter(commands, j) >= 1

IsDelimiter(c) == c \in {"LoopStart", "LoopEnd"}

NonDelimiters(commands) == SelectSeq(commands, LAMBDA c : ~IsDelimiter(c))

\* The tags of the leaves of a tree, in order, the Loop wrappers dropped.
RECURSIVE Flatten(_)
Flatten(tree) ==
    IF tree = <<>> THEN <<>>
    ELSE (IF tree[1].op = "Loop" THEN Flatten(tree[1].body) ELSE <<tree[1].op>>)
         \o Flatten(Tail(tree))

\* The tree of a stack-based builder: a LoopStart pushes an empty sequence, a
\* LoopEnd pops one and appends it, wrapped in a Loop, to the one below.
RECURSIVE StackBuild(_, _, _)
StackBuild(commands, i, stk) ==
    IF i > Len(commands) THEN stk[1]
    ELSE LET n == Len(stk) IN
         CASE commands[i] = "LoopStart" ->
                StackBuild(commands, i + 1, Append(stk, <<>>))
           [] commands[i] = "LoopEnd" ->
                StackBuild(commands, i + 1,
                           [SubSeq(stk, 1, n - 1) EXCEPT
                              ![n - 1] = Append(@, Loop(stk[n]))])
           [] OTHER ->
                StackBuild(commands, i + 1,
                           [stk EXCEPT ![n] = Append(@, Leaf(commands[i]))])

StackParse(commands) == StackBuild(commands, 1, <<<<>>>>)

\* parse has been called, and it panicked or returned.
ParseCalled == pc \notin {"lex", "parse"}

ParsePanicked == pc = "panic" /\ panic_msg = "Loop end with no loop start"

ParseReturned == ParseCalled /\ ~ParsePanicked

\* Nothing of the executor has happened.
Untouched ==
    /\ mem = ZeroMem
    /\ ptr = 0
    /\ reg = [value |-> 0, empty |-> TRUE]
    /\ out = <<>>
    /\ inpos = 0
    /\ hist = <<>>

(***************************************************************************)
(* The properties.                                                         *)
(***************************************************************************)

\* C1: for a well-nested command sequence, the tree parse returns flattens
\* (Loop wrappers dropped) to the sequence's commands other than LoopStart
\* and LoopEnd, in order, none lost and none duplicated.
C1_RoundTrip ==
    (ParseReturned /\ WellNested(lexed))
        => Flatten(instructions) = NonDelimiters(lexed)

\* C2: a command sequence with an unmatched LoopEnd makes parse abort the
\* run with the structural error, before the executor has done anything.
C2_UnmatchedEndAborts ==
    (ParseCalled /\ ~NoUnmatchedEnd(lexed)) => (ParsePanicked /\ Untouched)

\* C3: for a well-nested command sequence parse raises no structural error
\* and returns the tree of the stack-based builder: one Loop per matched
\* pair, nested as the pairs are.
C3_StackTree ==
    (ParseCalled /\ WellNested(lexed))
        => (~ParsePanicked /\ instructions = StackParse(lexed))

\* C4: while the run has not aborted the pointer is an index of the tape,
\* 0 <= ptr < MEM_SIZE.
C4_PointerInTape == pc \in {"exec", "done"} => InBounds(ptr)

\* C5: a program that reaches a loop with an empty body on a nonzero cell
\* (here: well nested, and some IncVal's, then LoopStart, LoopEnd) never
\* ends, neither by returning nor by a panic.
C5_EmptyLoopSpins ==
    (/\ WellNested(lexed)
     /\ \E k \in 2..(Len(lexed) - 1) :
           /\ \A j \in 1..(k - 1) : lexed[j] = "IncVal"
           /\ lexed[k] = "LoopStart"
           /\ lexed[k + 1] = "LoopEnd")
        => pc \notin {"done", "panic"}

\* C6: with no unmatched LoopEnd and a LoopStart at depth 0 that is never
\* closed, parse returns, and what it returns is what it returns for the
\* commands before that LoopStart: nothing from there on is in the tree.
C6_UnclosedDropped ==
    \A k \in 1..Len(lexed) :
        (ParseCalled /\ NoUnmatchedEnd(lexed) /\ UnclosedAt(lexed, k))
            => /\ ~ParsePanicked
               /\ instructions = parse(SubSeq(lexed, 1, k - 1)).instructions

\* The last two completed steps are two RegAccess.
TwoToggles ==
    /\ Len(hist) = 2
    /\ hist[1].op = "RegAccess"
    /\ hist[2].op = "RegAccess"
    /\ pc \in {"exec", "done"}

\* C7 as stated: two RegAccess in succession, from any register state, leave
\* the cell at the pointer with the value it had before the first.
C7_ToggleTwiceAnyRegister ==
    TwoToggles => CellAt(mem, ptr) = hist[1].cell

\* C7 as amended: two RegAccess in succession leave the cell at the pointer
\* with the value it had before the first when the register was empty
\* before the first, and with the register's value when it was filled;
\* either way the register is empty or filled as before, and a filled
\* register keeps its value.
C7_ToggleTwice ==
    TwoToggles =>
        /\ reg.empty = hist[1].reg.empty
        /\ hist[1].reg.empty => CellAt(mem, ptr) = hist[1].cell
        /\ ~hist[1].reg.empty =>
              /\ CellAt(mem, ptr) = hist[1].reg.value
              /\ reg.value = hist[1].reg.value

\* Two toggles from an empty register on a nonzero cell have been made.
C7_Witness ==
    TwoToggles /\ hist[1].reg.empty /\ hist[1].cell # 0

\* The last completed step is a write of the cell: a Write, or an RWCond on
\* a nonzero cell.
LastStepWrote ==
    /\ hist # <<>>
    /\ \/ Last(hist).op = "Write"
       \/ Last(hist).op = "RWCond" /\ Last(hist).cell # 0

\* C8: a Write, and an RWCond on a nonzero cell, append one byte to the
\* output, the value of the cell; so k IncVal and a Write on a fresh tape
\* return with the output the single byte k mod 256.
C8_WriteOneByte ==
    /\ LastStepWrote => out = Append(Last(hist).out, Last(hist).cell)
    /\ \A k \in 0..MaxLen :
          (pc = "done" /\ lexed = Rep("IncVal", k) \o <<"Write">>)
              => out = <<k % Byte>>

\* The instruction the run panicked at.
PanickedAt(tag) ==
    /\ pc = "panic"
    /\ stack # <<>>
    /\ Top.i <= Len(Top.code)
    /\ Top.code[Top.i].op = tag

\* C9: IncVal and DecVal on a cell of the tape never panic, whatever the
\* cell's value, and act modulo 256: a run of n IncVal (DecVal) from the
\* value v leaves v + n (v - n) modulo 256, so 256 of them restore v;
\* IncVal then DecVal, and DecVal then IncVal, restore the value; IncVal
\* on 255 gives 0 and DecVal on 0 gives 255.
C9_WrapMod256 ==
    /\ (PanickedAt("IncVal") \/ PanickedAt("DecVal")) => ~InBounds(ptr)
    /\ (streak.op = "IncVal" /\ pc \in {"exec", "done"}) =>
          /\ CellAt(mem, ptr) = (streak.cell + streak.n) % Byte
          /\ streak.n = Byte => CellAt(mem, ptr) = streak.cell
    /\ (streak.op = "DecVal" /\ pc \in {"exec", "done"}) =>
          /\ CellAt(mem, ptr) = (streak.cell + Byte * streak.n - streak.n) % Byte
          /\ streak.n = Byte => CellAt(mem, ptr) = streak.cell
    /\ (Len(hist) = 2 /\ pc \in {"exec", "done"}
         /\ <<hist[1].op, hist[2].op>> \in
               {<<"IncVal", "DecVal">>, <<"DecVal", "IncVal">>})
          => CellAt(mem, ptr) = hist[1].cell
    /\ (hist # <<>> /\ pc \in {"exec", "done"}) =>
          /\ (Last(hist).op = "IncVal" /\ Last(hist).cell = Byte - 1)
                => CellAt(mem, ptr) = 0
          /\ (Last(hist).op = "DecVal" /\ Last(hist).cell = 0)
                => CellAt(mem, ptr) = Byte - 1

\* 256 IncVal in a row have been made from a nonzero value, the last of
\* them on 255.
C9_Witness ==
    /\ streak.op = "IncVal"
    /\ streak.n = Byte
    /\ streak.cell # 0
    /\ pc \in {"exec", "done"}

\* The step is the test of a Loop on a cell that holds 0.
LoopOnZero == AtInstr("Loop") /\ InBounds(ptr) /\ CellAt(mem, ptr) = 0

\* C10: a Loop reached on a cell that holds 0 runs its body zero times: the
\* step leaves tape, pointer, register, output and input position as they
\* were, calls nothing and moves on to the instruction after the Loop; so
\* LoopStart, IncVal, LoopEnd on a fresh tape returns with nothing changed.
C10_ZeroLoopSkipped ==
    /\ [][LoopOnZero =>
            /\ UNCHANGED <<mem, ptr, reg, out, inpos>>
            /\ pc' = "exec"
            /\ stack' = [stack EXCEPT ![Len(stack)].i = @ + 1]]_vars
    /\ [](lexed = <<"LoopStart", "IncVal", "LoopEnd">> =>
            /\ pc \in {"parse", "exec", "done"}
            /\ mem = ZeroMem /\ ptr = 0 /\ reg.empty
            /\ out = <<>> /\ inpos = 0)

\* LoopStart, IncVal, LoopEnd has returned, its Loop tested once, on 0.
C10_Witness ==
    /\ lexed = <<"LoopStart", "IncVal", "LoopEnd">>
    /\ instructions = <<Loop(<<Leaf("IncVal")>>)>>
    /\ pc = "done"
    /\ hist = <<[op |-> "Loop", ptr |-> 0, cell |-> 0,
                 reg |-> [value |-> 0, empty |-> TRUE], out |-> <<>>,
                 inpos |-> 0]>>

RECURSIVE NumeralValue(_)
NumeralValue(bytes) ==
    IF bytes = <<>> THEN 0
    ELSE 10 * NumeralValue(SubSeq(bytes, 1, Len(bytes) - 1))
         + (bytes[Len(bytes)] - 48)

\* The tapes m1 and m2 agree on every cell but p.
SameBut(m1, m2, p) ==
    \A q \in (DOMAIN m1 \cup DOMAIN m2) \ {p} : CellAt(m1, q) = CellAt(m2, q)

AtRead ==
    \/ AtInstr("Read")
    \/ AtInstr("RWCond") /\ InBounds(ptr) /\ CellAt(mem, ptr) = 0

\* C13: a read with no input byte left aborts the run, with tape, pointer,
\* register, output and input position as they were; a read with input left
\* and the pointer in the tape consumes the next byte of the input and
\* stores it in the cell at the pointer, and changes no other cell.  The
\* input is consumed one byte at a time, in order, and never past its end.
C13_ReadAtEndOfInput ==
    /\ [][AtRead =>
            IF inpos >= Len(input)
            THEN /\ pc' = "panic"
                 /\ panic_msg' = "stdin read failed"
                 /\ UNCHANGED <<mem, ptr, reg, out, inpos>>
            ELSE InBounds(ptr) =>
                 /\ pc' = "exec"
                 /\ inpos' = inpos + 1
                 /\ CellAt(mem', ptr) = input[inpos + 1]
                 /\ SameBut(mem, mem', ptr)
                 /\ UNCHANGED <<ptr, reg, out>>]_vars
    /\ [][inpos' = inpos \/ (inpos' = inpos + 1 /\ AtRead)]_vars
    /\ [](inpos <= Len(input))

\* A Read has aborted the run at the end of the input, after a first Read
\* took the only byte and a Write wrote it.
C13_Witness ==
    /\ PanickedAt("Read")
    /\ panic_msg = "stdin read failed"
    /\ input # <<>>
    /\ inpos = Len(input)
    /\ CellAt(mem, ptr) = input[1]
    /\ out # <<>>

\* The tokens of a text, said without the split: a token starts at a
\* character that is no blank and follows a blank or nothing, and goes on
\* to the last character before the next blank or the end.
Blank(ch) == ch = " " \/ ch = "\t" \/ ch = "\n" \/ ch = "\r"

TokenStarts(text) ==
    { i \in 1..Len(text) : ~Blank(text[i]) /\ (i = 1 \/ Blank(text[i - 1])) }

TokenEnd(text, i) ==
    CHOOSE j \in i..Len(text) :
        /\ \A k \in i..j : ~Blank(text[k])
        /\ j = Len(text) \/ Blank(text[j + 1])

TokensOf(text) ==
    LET starts == TokenStarts(text)
        nth(k) == CHOOSE i \in starts :
                      Cardinality({ j \in starts : j < i }) = k - 1
    IN  [k \in 1..Cardinality(starts) |->
            SubSeq(text, nth(k), TokenEnd(text, nth(k)))]

\* The token is one of the twelve fixed strings.
Recognized(token) == \E c \in Command : TokenOf(c) = token

\* The opcodes of the recognized tokens of a text, in the tokens' order.
OpcodesOf(text) ==
    LET known == SelectSeq(TokensOf(text), Recognized)
    IN  [k \in 1..Len(known) |-> CHOOSE c \in Command : TokenOf(c) = known[k]]

\* C14: once lex has run, the opcode sequence is the sequence of the
\* opcodes of the recognized tokens of the source, one for one and in
\* order, and lex has raised no error; on a source with no recognized
\* token the opcode sequence is empty, the tree is empty, and the run
\* never panics, and leaves tape, pointer, register, output and input as
\* they were at the start.
C14_LexTokenByToken ==
    /\ pc # "lex" => lexed = OpcodesOf(contents)
    /\ pc = "parse" => panic_msg = ""
    /\ (\A k \in DOMAIN TokensOf(contents) : ~Recognized(TokensOf(contents)[k]))
         => /\ pc # "panic"
            /\ pc # "lex" => lexed = <<>>
            /\ instructions = <<>>
            /\ Untouched

\* A run is over on a source with a line end and a tab between tokens and
\* one token that is no command: its two commands have been executed.
C14_Witness ==
    /\ pc = "done"
    /\ \E k \in DOMAIN contents : contents[k] = "\n"
    /\ Len(TokensOf(contents)) = 3
    /\ lexed = <<"IncVal", "Write">>
    /\ out = <<49>>

\* C15: the frame of a step.  The register changes only in a RegAccess
\* step; the pointer only in an IncPtr or DecPtr step; the tape only in an
\* IncVal, DecVal, ZeroVal, RegAccess or Read step or an RWCond step on a
\* zero cell, and then in no cell but the one at the pointer; a Write step
\* and a test of a Loop change none of the three.
C15_Frame ==
    [][/\ reg' # reg => AtInstr("RegAccess")
       /\ ptr' # ptr => AtInstr("IncPtr") \/ AtInstr("DecPtr")
       /\ mem' # mem =>
            /\ \/ \E tag \in {"IncVal", "DecVal", "ZeroVal", "RegAccess", "Read"} :
                     AtInstr(tag)
               \/ AtInstr("RWCond") /\ CellAt(mem, ptr) = 0
            /\ SameBut(mem, mem', ptr)
            /\ ptr' = ptr
       /\ (AtInstr("Write") \/ AtInstr("Loop")) => UNCHANGED <<mem, ptr, reg>>]_vars

\* An IncVal has changed the cell at the pointer, moved to cell 1 by the
\* step before, and the value written in cell 0 earlier is still there.
C15_Witness ==
    /\ Len(hist) = 2
    /\ hist[1].op = "IncPtr"
    /\ hist[2].op = "IncVal" /\ hist[2].cell = 0
    /\ ptr = 1
    /\ CellAt(mem, 0) = 1
    /\ CellAt(mem, 1) = 1

\* The top call's for loop has moved on by one instruction.
Advanced == stack' = [stack EXCEPT ![Len(stack)].i = @ + 1]

\* C16: the guard of a Loop is tested when the for loop is at the Loop,
\* that is on entry and each time the call of its body has returned, on
\* the cell at the pointer of that moment.  A test on a nonzero cell calls
\* the body from its first instruction, one on a zero cell completes the
\* Loop, so the cell at the pointer is 0 when a Loop completes.  A call of
\* a body goes on instruction by instruction whatever the cells hold, and
\* returns only when its sequence is exhausted, to the Loop that made it,
\* with tape and pointer as the body left them.
C16_GuardAfterFullBody ==
    [][/\ (AtInstr("Loop") /\ InBounds(ptr)) =>
            /\ pc' = "exec"
            /\ UNCHANGED <<mem, ptr>>
            /\ IF CellAt(mem, ptr) # 0
               THEN stack' = Append(stack, [code |-> Top.code[Top.i].body,
                                            i |-> 1])
               ELSE Advanced
       /\ (AtInstr("Loop") /\ pc' = "exec" /\ Len(stack') = Len(stack)) =>
            CellAt(mem', ptr') = 0
       /\ (pc = "exec" /\ ~AtInstr("Loop") /\ Len(stack') = Len(stack)) =>
            pc' = "panic" \/ Advanced
       /\ (pc = "exec" /\ Len(stack') > Len(stack)) => AtInstr("Loop")
       /\ Len(stack') < Len(stack) =>
            /\ Top.i > Len(Top.code)
            /\ stack' = SubSeq(stack, 1, Len(stack) - 1)
            /\ UNCHANGED <<mem, ptr>>
            /\ stack' # <<>> =>
                 stack'[Len(stack')].code[stack'[Len(stack')].i].op = "Loop"]_vars

\* A Loop has completed on the zero cell 1, the pointer's place after the
\* body; the body zeroed the cell 0 the loop was entered on, went on, and
\* left 1 in it.
C16_Witness ==
    /\ instructions = <<Leaf("IncVal"),
                        Loop(<<Leaf("ZeroVal"), Leaf("IncVal"), Leaf("IncPtr")>>),
                        Leaf("Write")>>
    /\ pc = "exec"
    /\ Len(stack) = 1
    /\ Top.i = 3
    /\ Last(hist).op = "Loop"
    /\ ptr = 1
    /\ CellAt(mem, 0) = 1
    /\ CellAt(mem, 1) = 0

\* The tree holds no Loop (a Loop below the top level lies in a Loop).
LoopFree == \A k \in DOMAIN instructions : instructions[k].op # "Loop"

\* The run has stopped: main has returned or the process has panicked.
Stopped == pc \in {"done", "panic"}

\* C17: the run of a tree with no Loop stops, by the end of the top-level
\* sequence or by a panic; until then one call of exec is at work, on the
\* sequence itself, and each step either panics at the instruction the for
\* loop is at, or moves the for loop on by one, or, past the last
\* instruction, returns to main: no instruction is executed twice or out of
\* order.
C17_LoopFreeStops ==
    /\ (pc = "exec" /\ LoopFree) ~> Stopped
    /\ [][(pc = "exec" /\ LoopFree) =>
            /\ Len(stack) = 1
            /\ Top.code = instructions
            /\ \/ pc' = "panic" /\ stack' = stack /\ Top.i <= Len(Top.code)
               \/ pc' = "exec" /\ Advanced /\ Top.i <= Len(Top.code)
               \/ pc' = "done" /\ Top.i = Len(Top.code) + 1]_vars
    /\ [](pc = "exec" /\ hist = <<>> /\ stack # <<>> => Top.i = 1)

\* The run of a tree of more than three instructions and no Loop is over, by
\* the end of the sequence, after a Write.
C17_Witness ==
    /\ pc = "done"
    /\ LoopFree
    /\ Len(instructions) > 3
    /\ Len(hist) = 2
    /\ Last(hist).op = "Write"
    /\ out # <<>>
    /\ inpos = 1

\* s is t with some of its elements left out.
RECURSIVE IsSubsequence(_, _)
IsSubsequence(s, t) ==
    IF s = <<>> THEN TRUE
    ELSE IF t = <<>> THEN FALSE
    ELSE IF s[1] = t[1] THEN IsSubsequence(Tail(s), Tail(t))
    ELSE IsSubsequence(s, Tail(t))

\* C18: when parse has returned, the leaves of its tree, in order, are the
\* commands of the opcode sequence that are no LoopStart and no LoopEnd,
\* in their order, with some of them left out: none twice, none out of
\* order, none that was not there.
C18_FlattenIsSubsequence ==
    ParseReturned => IsSubsequence(Flatten(instructions), NonDelimiters(lexed))


\* parse has returned a tree with a Loop and a leaf in it, and has left out
\* a command of the opcode sequence.
C18_Witness ==
    /\ ParseReturned
    /\ \E k \in DOMAIN instructions : instructions[k].op = "Loop"
    /\ Flatten(instructions) # <<>>
    /\ Len(Flatten(instructions)) < Len(NonDelimiters(lexed))

\* The instructions that access mem[*ptr].
TapeAccess ==
    {"RWCond", "DecVal", "IncVal", "ZeroVal", "RegAccess", "Write", "Read", "Loop"}

\* The indices of the tape.
TapeIndices == 0..(MEM_SIZE - 1)

\* C19: the tape holds the cells 0..2999 and no other, and a step at an
\* instruction that accesses the cell at the pointer, made with the pointer
\* outside 0..2999, ends in a panic with the tape, the pointer and the
\* register as they were and nothing written.
C19_NoAccessOutsideTape ==
    /\ [](DOMAIN mem \subseteq TapeIndices)
    /\ [][(\E tag \in TapeAccess : AtInstr(tag)) /\ ptr \notin TapeIndices =>
            /\ pc' = "panic"
            /\ panic_msg' \in {"index out of bounds", "stdin read failed"}
            /\ panic_msg' = "stdin read failed" =>
                 AtInstr("Read") /\ inpos >= Len(input)
            /\ UNCHANGED <<mem, ptr, reg, out>>]_vars

\* The run has panicked at an IncVal with the pointer one past the last
\* cell of the tape, where an IncPtr took it from the last cell.
C19_Witness ==
    /\ PanickedAt("IncVal")
    /\ panic_msg = "index out of bounds"
    /\ ptr = MEM_SIZE
    /\ Last(hist).op = "IncPtr"
    /\ Last(hist).ptr = MEM_SIZE - 1

=============================================================================
